---- MODULE Spec2Model ----
(***************************************************************************)
(* The parking-lot ticket ledger of "tugas 2" (app.py): the active tickets *)
(* (an insertion-ordered dict), the occupancy counter, the ticket sequence *)
(* number, and the request handlers that run under data_lock.              *)
(*                                                                         *)
(* Spec      : every handler is one atomic step (one request at a time).   *)
(* SpecConc  : request threads; each handler is split at the lock and at   *)
(*             every statement that touches the global state.              *)
(* SpecRush  : more than TOTAL_SLOTS threads, each doing one check-in.     *)
(* SpecOnce  : threads that each serve one request of any kind, scheduled  *)
(*             fairly.                                                     *)
(* SpecCost  : calculate_cost alone, over a grid of entry and exit times.  *)
(* SpecNoWebhooks, SpecFull : Spec without the webhook routes; Spec from   *)
(*             the filled lot.                                             *)
(*                                                                         *)
(* The JWT service of "tugas 1" (app.py) is a separate program: its users  *)
(* store is the variable users, which no parking handler touches.          *)
(* SpecJwt   : login and the token-guarded profile update, one request a   *)
(*             step.                                                       *)
(***************************************************************************)
EXTENDS Integers, Sequences, FiniteSets, TLC

\* ------------------------------------------------------------ constants
TOTAL_SLOTS == 5
HOURLY_RATE == 3000
SECONDS_PER_HOUR == 3600

\* ------------------------------------------------------------ bounds
\* The sequence number is capped: no ticket is created once it exceeds this.
MaxTickets == 5
\* Request threads of SpecConc.
NumThreads == 2
\* The cap on the sequence number in SpecConc.
ConcTickets == 2
\* Check-in requests beyond TOTAL_SLOTS in SpecRush.
ExtraRequests == 1

\* The readings get_current_time() can return, in seconds after 2025-10-17
\* 08:00:00 (the first seeded entry time).  One reading keeps the ledger's
\* state space small; calculate_cost meets zero, negative and hour-boundary
\* stays in SpecCost.
Clock == {12601}

\* Entry and exit times handed to calculate_cost in SpecCost (seconds).
CostTimes == {0, 1, 3599, 3600, 3601, 7199, 7200, 7201}

VARIABLES
  active_tickets,        \* sequence of <<ticket_id, ticket>> in insertion order (the dict)
  occupied_slots_count,  \* the occupancy counter
  next_ticket_number,    \* the ticket sequence number
  resp,                  \* Spec: the last response
  lock,                  \* SpecConc/SpecRush: holder of data_lock, or Free
  pc,                    \* per thread: position in its handler
  local,                 \* per thread: the handler's local variables
  result,                \* per thread: the response it returned
  users                  \* the JWT service: login key -> password and profile

ledger == <<active_tickets, occupied_slots_count, next_ticket_number>>
threads == <<lock, pc, local, result>>
vars == <<active_tickets, occupied_slots_count, next_ticket_number, resp,
          lock, pc, local, result, users>>

\* ------------------------------------------------------------ strings
\* Strings are sequences of one-character strings.
WS == {" "}

RECURSIVE LStrip(_)
LStrip(s) == IF s # <<>> /\ Head(s) \in WS THEN LStrip(Tail(s)) ELSE s

RECURSIVE RStrip(_)
RStrip(s) ==
  IF s # <<>> /\ s[Len(s)] \in WS THEN RStrip(SubSeq(s, 1, Len(s) - 1)) ELSE s

StripNothing(s) == s

\* str.strip()
strip(s) == RStrip(LStrip(s))

UpperChar(c) == CASE c = "t" -> "T" [] c = "b" -> "B" [] OTHER -> c

\* str.upper()
upper(s) == [i \in 1..Len(s) |-> UpperChar(s[i])]

DigitChar == <<"0", "1", "2", "3", "4", "5", "6", "7", "8", "9">>

RECURSIVE Digits(_)
Digits(n) ==
  IF n < 10 THEN <<DigitChar[n + 1]>>
  ELSE Digits(n \div 10) \o <<DigitChar[(n % 10) + 1]>>

RECURSIVE ZeroPad(_, _)
ZeroPad(s, w) == IF Len(s) >= w THEN s ELSE ZeroPad(<<"0">> \o s, w)

FormatTicketIdWrapped(n) == <<"T">> \o ZeroPad(Digits(((n - 1) % 3) + 1), 4)

\* f"T{n:04d}"
FormatTicketId(n) == <<"T">> \o ZeroPad(Digits(n), 4)

\* ------------------------------------------------------------ the dict
Keys(d) == {d[i][1] : i \in 1..Len(d)}
Values(d) == [i \in 1..Len(d) |-> d[i][2]]

DictGetOrFirst(d, key) ==
  IF d # <<>> /\ key \notin {d[i][1] : i \in 1..Len(d)}
  THEN <<d[1]>>
  ELSE SelectSeq(d, LAMBDA kv : kv[1] = key)

\* dict.get(key): the sequence of the values stored under key (empty: None)
DictGet(d, key) == SelectSeq(d, LAMBDA kv : kv[1] = key)

\* d[key] = value (a new key is appended, an existing key keeps its position)
DictSet(d, key, value) ==
  IF key \in Keys(d)
  THEN [i \in 1..Len(d) |-> IF d[i][1] = key THEN <<key, value>> ELSE d[i]]
  ELSE Append(d, <<key, value>>)

DictDelNothing(d, key) == d

\* del d[key]
DictDel(d, key) == SelectSeq(d, LAMBDA kv : kv[1] # key)

\* ------------------------------------------------------------ helpers
NoSlot == 0

\* The loop of find_next_available_slot, from slot i on.
RECURSIVE ScanSlots(_, _)
ScanSlots(i, used_slots) ==
  IF i > TOTAL_SLOTS THEN NoSlot
  ELSE IF i \notin used_slots THEN i
  ELSE ScanSlots(i + 1, used_slots)

ScanSlotsFromTwo(used_slots) == ScanSlots(2, used_slots)
ScanSlotsIgnoringUse(used_slots) == ScanSlots(1, {})

\* for i in range(1, TOTAL_SLOTS + 1)
ScanAllSlots(used_slots) == ScanSlots(1, used_slots)

\* find_next_available_slot()
find_next_available_slot(tickets) ==
  LET used_slots == {tickets[i][2].slot_number : i \in 1..Len(tickets)}
  IN ScanAllSlots(used_slots)

FloorHours(total_seconds) == total_seconds \div SECONDS_PER_HOUR

\* math.ceil(total_seconds / 3600) for whole seconds
CeilHours(total_seconds) == -((-total_seconds) \div SECONDS_PER_HOUR)

\* calculate_cost(entry_time, exit_time) -> <<duration_hours, cost>>
calculate_cost(entry_time, exit_time) ==
  LET total_seconds == exit_time - entry_time
      ceiled == CeilHours(total_seconds)
      duration_hours == IF ceiled < 1 THEN 1 ELSE ceiled
  IN <<duration_hours, duration_hours * HOURLY_RATE>>

\* ------------------------------------------------------------ requests
\* A JSON body is a set of <<field, value>> pairs; the empty set stands for a
\* missing body and for {} alike ("not data" holds of both).
Has(data, field) == \E kv \in data : kv[1] = field
Get(data, field) == (CHOOSE kv \in data : kv[1] = field)[2]

PlateInputs == {<<>>, <<" ">>, <<" ", "b", " ">>}
EntryBodies ==
  {{}, {<<"other", <<"x">>>>}} \cup {{<<"plate_number", p>>} : p \in PlateInputs}

TicketIdInputs ==
  {FormatTicketId(n) : n \in 1..MaxTickets}
    \cup {<<>>, <<" ", "t", "0", "0", "0", "1", " ">>, <<"T", "9", "9", "9", "9">>}
ExitBodies ==
  {{}, {<<"other", <<"x">>>>}} \cup {{<<"ticket_id", i>>} : i \in TicketIdInputs}

\* ------------------------------------------------------------ initial data
initial_entries ==
  << [plate |-> <<"B">>, time |-> 0],
     [plate |-> <<"B">>, time |-> 4500],
     [plate |-> <<"B">>, time |-> 9000] >>

\* The state of the module's globals right after import.
ModuleState == [tickets |-> <<>>, count |-> 0, next |-> 1]

\* One round of the loop of populate_initial_data.
RECURSIVE PopulateLoop(_, _)
PopulateLoop(st, k) ==
  IF k > Len(initial_entries) THEN st
  ELSE LET ticket_id == FormatTicketId(st.next)
           slot == find_next_available_slot(st.tickets)
           advanced == [st EXCEPT !.next = st.next + 1]
       IN IF slot = NoSlot THEN PopulateLoop(advanced, k + 1)
          ELSE PopulateLoop(
                 [advanced EXCEPT !.tickets =
                    DictSet(st.tickets, ticket_id,
                            [ticket_id |-> ticket_id,
                             plate_number |-> upper(initial_entries[k].plate),
                             entry_time |-> initial_entries[k].time,
                             slot_number |-> slot])],
                 k + 1)

\* populate_initial_data(): runs once, on an empty ledger only
populate_initial_data(st) ==
  IF st.tickets # <<>> THEN st
  ELSE LET filled == PopulateLoop(st, 1)
       IN [filled EXCEPT !.count = Len(filled.tickets)]

\* The ledger when the server starts taking requests: imported as a module
\* (nothing seeded) or run as __main__ (seeded).
StartStates == {ModuleState, populate_initial_data(ModuleState)}

\* users = {...}: the store of the JWT service as the module defines it
InitialUsers ==
  [k \in {"ghilman@gmail.com"} |->
     [password |-> "102022300435",
      profile |-> [name |-> "ghilman", email |-> "ghilman@gmail.com"]]]

NoResp == [op |-> "none", status |-> 0]
Free == 0

InitLedger ==
  \E st \in StartStates :
    /\ active_tickets = st.tickets
    /\ occupied_slots_count = st.count
    /\ next_ticket_number = st.next

Init ==
  /\ InitLedger
  /\ resp = NoResp
  /\ lock = Free
  /\ pc = <<>>
  /\ local = <<>>
  /\ result = <<>>
  /\ users = InitialUsers

\* ------------------------------------------------------------ handlers (atomic)
\* GET /api/slots/available
get_available_slots ==
  LET available == TOTAL_SLOTS - occupied_slots_count
  IN /\ resp' = [op |-> "get_available_slots", status |-> 200,
                 total_slots |-> TOTAL_SLOTS,
                 occupied_slots |-> occupied_slots_count,
                 available_slots |-> IF available >= 0 THEN available ELSE 0]
     /\ UNCHANGED <<ledger, threads>>

\* The request check of create_entry, before the lock is taken.
EntryInvalid(data) ==
  \/ data = {}
  \/ ~Has(data, "plate_number")
  \/ strip(Get(data, "plate_number")) = <<>>

LotFullOffByOne(count) == count > TOTAL_SLOTS

\* The counter test that opens the critical section of create_entry.
LotFull(count) == count >= TOTAL_SLOTS

SameNumber(n) == n

\* next_ticket_number += 1
NextNumber(n) == n + 1

\* What create_entry does to the ledger <<tickets, count, next>> and answers.
EntryOutcome(tickets, count, next, data, now) ==
  LET same == [tickets |-> tickets, count |-> count, next |-> next]
  IN IF EntryInvalid(data)
     THEN same @@
          [resp |-> [op |-> "create_entry", status |-> 400,
                     error |-> "plate_number is required"]]
     ELSE LET plate_number == upper(strip(Get(data, "plate_number")))
              slot_number == find_next_available_slot(tickets)
              ticket_id == FormatTicketId(next)
          IN IF LotFull(count)
             THEN same @@
                  [resp |-> [op |-> "create_entry", status |-> 400,
                             error |-> "Parking lot is full"]]
             ELSE IF slot_number = NoSlot
             THEN [same EXCEPT !.count = Len(tickets)] @@
                  [resp |-> [op |-> "create_entry", status |-> 400,
                             error |-> "Parking lot is full (state desync detected)"]]
             ELSE [tickets |->
                     DictSet(tickets, ticket_id,
                             [ticket_id |-> ticket_id,
                              plate_number |-> plate_number,
                              slot_number |-> slot_number,
                              entry_time |-> now]),
                   count |-> count + 1,
                   next |-> NextNumber(next),
                   resp |-> [op |-> "create_entry", status |-> 201,
                             ticket_id |-> ticket_id,
                             plate_number |-> plate_number,
                             slot_number |-> slot_number,
                             entry_time |-> now,
                             available_slots |-> TOTAL_SLOTS - (count + 1)]]

create_entry_without_resync(data, now) ==
  LET out == EntryOutcome(active_tickets, occupied_slots_count,
                          next_ticket_number, data, now)
  IN /\ out.resp.status = 201 => next_ticket_number <= MaxTickets
     /\ active_tickets' = out.tickets
     /\ occupied_slots_count' =
          (IF out.resp.status = 201 THEN out.count ELSE occupied_slots_count)
     /\ next_ticket_number' = out.next
     /\ resp' = out.resp
     /\ UNCHANGED threads

\* POST /api/entries, while next_ticket_number has not passed cap
create_entry_upto(data, now, cap) ==
  LET out == EntryOutcome(active_tickets, occupied_slots_count,
                          next_ticket_number, data, now)
  IN /\ out.resp.status = 201 => next_ticket_number <= cap
     /\ active_tickets' = out.tickets
     /\ occupied_slots_count' = out.count
     /\ next_ticket_number' = out.next
     /\ resp' = out.resp
     /\ UNCHANGED threads

\* POST /api/entries
create_entry(data, now) == create_entry_upto(data, now, MaxTickets)

DecrementUnclamped(count) == count - 1
DecrementTypo(count) == IF count > 0 THEN -1 ELSE count

\* if occupied_slots_count > 0: occupied_slots_count -= 1
Decrement(count) == IF count > 0 THEN count - 1 ELSE count

\* POST /api/exits
create_exit(data, now) ==
  /\ UNCHANGED threads
  /\ IF data = {} \/ ~Has(data, "ticket_id")
     THEN /\ resp' = [op |-> "create_exit", status |-> 400,
                      error |-> "ticket_id is required"]
          /\ UNCHANGED ledger
     ELSE LET ticket_id == upper(strip(Get(data, "ticket_id")))
              found == DictGet(active_tickets, ticket_id)
          IN IF found = <<>>
             THEN /\ resp' = [op |-> "create_exit", status |-> 404,
                              error |-> "Ticket not found"]
                  /\ UNCHANGED ledger
             ELSE LET ticket == found[1][2]
                      dc == calculate_cost(ticket.entry_time, now)
                  IN /\ active_tickets' = DictDel(active_tickets, ticket_id)
                     /\ occupied_slots_count' = Decrement(occupied_slots_count)
                     /\ resp' = [op |-> "create_exit", status |-> 200,
                                 ticket_id |-> ticket_id,
                                 plate_number |-> ticket.plate_number,
                                 duration_hours |-> dc[1],
                                 cost |-> dc[2],
                                 entry_time |-> ticket.entry_time,
                                 exit_time |-> now]
                     /\ UNCHANGED next_ticket_number

NoKey(x) == 0

\* key=lambda x: x['slot_number']
SlotKey(x) == x.slot_number

\* The place list.sort gives to list[i]: after every element with a smaller
\* key and, the sort being stable, after the earlier elements with its key.
Rank(list, i) ==
  Cardinality({j \in 1..Len(list) :
                 \/ SlotKey(list[j]) < SlotKey(list[i])
                 \/ SlotKey(list[j]) = SlotKey(list[i]) /\ j <= i})

\* tickets_list.sort(key=...)
SortBySlot(list) ==
  [k \in 1..Len(list) |-> list[CHOOSE i \in 1..Len(list) : Rank(list, i) = k]]

\* The list built by get_all_tickets from a snapshot of the dict.
TicketsList(tickets, now) ==
  LET current_tickets == Values(tickets)
      ticket_data(t) ==
        LET dc == calculate_cost(t.entry_time, now)
        IN [ticket_id |-> t.ticket_id,
            plate_number |-> t.plate_number,
            slot_number |-> t.slot_number,
            entry_time |-> t.entry_time,
            current_duration_hours |-> dc[1],
            current_cost |-> dc[2]]
  IN SortBySlot([i \in 1..Len(current_tickets) |-> ticket_data(current_tickets[i])])

\* GET /api/tickets
get_all_tickets(now) ==
  /\ resp' = [op |-> "get_all_tickets", status |-> 200,
              tickets |-> TicketsList(active_tickets, now)]
  /\ UNCHANGED <<ledger, threads>>

IncrementUnclamped(count) == count + 1
IncrementNothing(count) == count

\* if occupied_slots_count < TOTAL_SLOTS: occupied_slots_count += 1
Increment(count) == IF count < TOTAL_SLOTS THEN count + 1 ELSE count

\* GET /api/webhooks/slot-1
webhook_slot_minus ==
  /\ occupied_slots_count' = Decrement(occupied_slots_count)
  /\ resp' = [op |-> "webhook_slot_minus", status |-> 200,
              new_occupied_slots |-> Decrement(occupied_slots_count)]
  /\ UNCHANGED <<active_tickets, next_ticket_number, threads>>

\* GET /api/webhooks/slot+1
webhook_slot_plus ==
  /\ occupied_slots_count' = Increment(occupied_slots_count)
  /\ resp' = [op |-> "webhook_slot_plus", status |-> 200,
              new_occupied_slots |-> Increment(occupied_slots_count)]
  /\ UNCHANGED <<active_tickets, next_ticket_number, threads>>

CheckIn == \E data \in EntryBodies, now \in Clock : create_entry(data, now)
CheckOut == \E data \in ExitBodies, now \in Clock : create_exit(data, now)
Listing == \E now \in Clock : get_all_tickets(now)

Next ==
  \/ get_available_slots /\ UNCHANGED users
  \/ CheckIn /\ UNCHANGED users
  \/ CheckOut /\ UNCHANGED users
  \/ Listing /\ UNCHANGED users
  \/ webhook_slot_minus /\ UNCHANGED users
  \/ webhook_slot_plus /\ UNCHANGED users

Spec == Init /\ [][Next]_vars

\* The service when nothing ever calls the two webhook routes.
NextNoWebhooks ==
  \/ get_available_slots /\ UNCHANGED users
  \/ CheckIn /\ UNCHANGED users
  \/ CheckOut /\ UNCHANGED users
  \/ Listing /\ UNCHANGED users

SpecNoWebhooks == Init /\ [][NextNoWebhooks]_vars

\* ------------------------------------------------------------ calculate_cost alone
\* SpecCost hands calculate_cost every pair of CostTimes and records its answer.
InitCost ==
  /\ active_tickets = ModuleState.tickets
  /\ occupied_slots_count = ModuleState.count
  /\ next_ticket_number = ModuleState.next
  /\ \E e \in CostTimes, x \in CostTimes :
       resp = [op |-> "calculate_cost", status |-> 0,
               entry_time |-> e, exit_time |-> x]
  /\ lock = Free
  /\ pc = <<>>
  /\ local = <<>>
  /\ result = <<>>
  /\ users = InitialUsers

ComputeCost ==
  /\ resp.op = "calculate_cost"
  /\ resp.status = 0
  /\ LET dc == calculate_cost(resp.entry_time, resp.exit_time)
     IN resp' = [op |-> "calculate_cost", status |-> 200,
                 entry_time |-> resp.entry_time, exit_time |-> resp.exit_time,
                 duration_hours |-> dc[1], cost |-> dc[2]]
  /\ UNCHANGED <<ledger, threads>>

NextCost == ComputeCost /\ UNCHANGED users

SpecCost == InitCost /\ [][NextCost]_vars

\* ------------------------------------------------------------ request threads
\* The server runs every request in a thread of its own.  A handler is split
\* where it takes data_lock and at each statement that reads or writes the
\* globals; leaving the "with data_lock:" block releases the lock.
Threads == DOMAIN pc

LockLabels ==
  {"entry_lock", "exit_lock", "slots_lock", "list_lock", "minus_lock", "plus_lock"}
CSLabels ==
  {"entry_check", "entry_scan", "entry_id", "entry_store", "entry_count",
   "exit_get", "exit_delete", "exit_count",
   "slots_read", "list_copy", "list_build", "minus_update", "plus_update"}

\* The first statement inside the with-block of each handler.
FirstInside(label) ==
  CASE label = "entry_lock" -> "entry_check"
    [] label = "exit_lock" -> "exit_get"
    [] label = "slots_lock" -> "slots_read"
    [] label = "list_lock" -> "list_copy"
    [] label = "minus_lock" -> "minus_update"
    [] label = "plus_lock" -> "plus_update"

NoLocal == [op |-> "none"]

Goto(t, label) == pc' = [pc EXCEPT ![t] = label]
Keep(t, rec) == local' = [local EXCEPT ![t] = rec]

\* return ...: the handler's locals are gone and the thread is done; the
\* response is kept when the client collects responses (SpecRush).
Return(t, r) ==
  /\ result' = IF t \in DOMAIN result THEN [result EXCEPT ![t] = r] ELSE result
  /\ local' = [local EXCEPT ![t] = NoLocal]
  /\ pc' = [pc EXCEPT ![t] = "done"]

LockNeverHeld(l) == TRUE

\* threading.Lock: it can be taken only while nobody holds it
LockAvailable(l) == l = Free

\* with data_lock:  (entering the block)
Acquire(t) ==
  /\ pc[t] \in LockLabels
  /\ LockAvailable(lock)
  /\ lock' = t
  /\ Goto(t, FirstInside(pc[t]))
  /\ UNCHANGED <<ledger, resp, local, result>>

ReleaseForgotten == lock' = lock

\* leaving the block
Release == lock' = Free

\* create_entry, lines 136-140
BeginEntry(t, data) ==
  /\ pc[t] = "idle"
  /\ IF EntryInvalid(data)
     THEN /\ Return(t, [op |-> "create_entry", status |-> 400,
                        error |-> "plate_number is required"])
     ELSE /\ Keep(t, [op |-> "create_entry",
                      plate_number |-> upper(strip(Get(data, "plate_number")))])
          /\ Goto(t, "entry_lock")
          /\ UNCHANGED result
  /\ UNCHANGED <<ledger, resp, lock>>

\* create_entry, lines 144-145
EntryCheck(t) ==
  /\ pc[t] = "entry_check"
  /\ IF LotFull(occupied_slots_count)
     THEN /\ Return(t, [op |-> "create_entry", status |-> 400,
                        error |-> "Parking lot is full"])
          /\ Release
     ELSE /\ Goto(t, "entry_scan")
          /\ UNCHANGED <<lock, local, result>>
  /\ UNCHANGED <<ledger, resp>>

\* create_entry, lines 148-153
EntryScan(t) ==
  /\ pc[t] = "entry_scan"
  /\ LET slot_number == find_next_available_slot(active_tickets)
     IN IF slot_number = NoSlot
        THEN /\ occupied_slots_count' = Len(active_tickets)
             /\ Return(t, [op |-> "create_entry", status |-> 400,
                           error |-> "Parking lot is full (state desync detected)"])
             /\ Release
           ELSE /\ Keep(t, local[t] @@ [slot_number |-> slot_number])
             /\ Goto(t, "entry_id")
             /\ UNCHANGED <<occupied_slots_count, lock, result>>
  /\ UNCHANGED <<active_tickets, next_ticket_number, resp>>

\* create_entry, lines 156-157 (generate_ticket_id)
EntryId(t, now, cap) ==
  /\ pc[t] = "entry_id"
  /\ next_ticket_number <= cap
  /\ Keep(t, local[t] @@ [entry_time |-> now,
                          ticket_id |-> FormatTicketId(next_ticket_number)])
  /\ next_ticket_number' = NextNumber(next_ticket_number)
  /\ Goto(t, "entry_store")
  /\ UNCHANGED <<active_tickets, occupied_slots_count, resp, lock, result>>

\* create_entry, lines 159-167
EntryStore(t) ==
  /\ pc[t] = "entry_store"
  /\ active_tickets' =
       DictSet(active_tickets, local[t].ticket_id,
               [ticket_id |-> local[t].ticket_id,
                plate_number |-> local[t].plate_number,
                slot_number |-> local[t].slot_number,
                entry_time |-> local[t].entry_time])
  /\ Goto(t, "entry_count")
  /\ UNCHANGED <<occupied_slots_count, next_ticket_number, resp, lock, local, result>>

\* create_entry, lines 168-179
EntryCount(t) ==
  /\ pc[t] = "entry_count"
  /\ occupied_slots_count' = occupied_slots_count + 1
  /\ Return(t, [op |-> "create_entry", status |-> 201,
                ticket_id |-> local[t].ticket_id,
                plate_number |-> local[t].plate_number,
                slot_number |-> local[t].slot_number,
                entry_time |-> local[t].entry_time,
                available_slots |-> TOTAL_SLOTS - (occupied_slots_count + 1)])
  /\ Release
  /\ UNCHANGED <<active_tickets, next_ticket_number, resp>>

\* create_exit, lines 186-190
BeginExit(t, data) ==
  /\ pc[t] = "idle"
  /\ IF data = {} \/ ~Has(data, "ticket_id")
     THEN /\ Return(t, [op |-> "create_exit", status |-> 400,
                        error |-> "ticket_id is required"])
     ELSE /\ Keep(t, [op |-> "create_exit",
                      ticket_id |-> upper(strip(Get(data, "ticket_id")))])
          /\ Goto(t, "exit_lock")
          /\ UNCHANGED result
  /\ UNCHANGED <<ledger, resp, lock>>

\* create_exit, lines 194-196
ExitGet(t) ==
  /\ pc[t] = "exit_get"
  /\ LET found == DictGet(active_tickets, local[t].ticket_id)
     IN IF found = <<>>
        THEN /\ Return(t, [op |-> "create_exit", status |-> 404,
                           error |-> "Ticket not found"])
             /\ Release
           ELSE /\ Keep(t, local[t] @@ [ticket |-> found[1][2]])
             /\ Goto(t, "exit_delete")
             /\ UNCHANGED <<lock, result>>
  /\ UNCHANGED <<ledger, resp>>

\* create_exit, lines 199-204
ExitDelete(t, now) ==
  /\ pc[t] = "exit_delete"
  /\ LET dc == calculate_cost(local[t].ticket.entry_time, now)
     IN Keep(t, local[t] @@ [exit_time |-> now,
                             duration_hours |-> dc[1], cost |-> dc[2]])
  /\ active_tickets' = DictDel(active_tickets, local[t].ticket_id)
  /\ Goto(t, "exit_count")
  /\ UNCHANGED <<occupied_slots_count, next_ticket_number, resp, lock, result>>

\* create_exit, lines 207-218
ExitCount(t) ==
  /\ pc[t] = "exit_count"
  /\ occupied_slots_count' = Decrement(occupied_slots_count)
  /\ Return(t, [op |-> "create_exit", status |-> 200,
                ticket_id |-> local[t].ticket_id,
                plate_number |-> local[t].ticket.plate_number,
                duration_hours |-> local[t].duration_hours,
                cost |-> local[t].cost,
                entry_time |-> local[t].ticket.entry_time,
                exit_time |-> local[t].exit_time])
  /\ Release
  /\ UNCHANGED <<active_tickets, next_ticket_number, resp>>

\* A handler that takes the lock at once: the request needs no checking.
Begin(t, op, label) ==
  /\ pc[t] = "idle"
  /\ Keep(t, [op |-> op])
  /\ Goto(t, label)
  /\ UNCHANGED <<ledger, resp, lock, result>>

BeginSlots(t) == Begin(t, "get_available_slots", "slots_lock")
BeginList(t) == Begin(t, "get_all_tickets", "list_lock")
BeginMinus(t) == Begin(t, "webhook_slot_minus", "minus_lock")
BeginPlus(t) == Begin(t, "webhook_slot_plus", "plus_lock")

\* get_available_slots, lines 123-129
SlotsRead(t) ==
  /\ pc[t] = "slots_read"
  /\ LET available == TOTAL_SLOTS - occupied_slots_count
     IN Return(t, [op |-> "get_available_slots", status |-> 200,
                   total_slots |-> TOTAL_SLOTS,
                   occupied_slots |-> occupied_slots_count,
                   available_slots |-> IF available >= 0 THEN available ELSE 0])
  /\ Release
  /\ UNCHANGED <<ledger, resp>>

\* get_all_tickets, lines 224-228
ListCopy(t, now) ==
  /\ pc[t] = "list_copy"
  /\ Keep(t, local[t] @@ [now |-> now, snapshot |-> active_tickets])
  /\ Goto(t, "list_build")
  /\ UNCHANGED <<ledger, resp, lock, result>>

\* get_all_tickets, lines 230-246
ListBuild(t) ==
  /\ pc[t] = "list_build"
  /\ Return(t, [op |-> "get_all_tickets", status |-> 200,
                tickets |-> TicketsList(local[t].snapshot, local[t].now)])
  /\ Release
  /\ UNCHANGED <<ledger, resp>>

\* webhook_slot_minus, lines 255-257
MinusUpdate(t) ==
  /\ pc[t] = "minus_update"
  /\ occupied_slots_count' = Decrement(occupied_slots_count)
  /\ Return(t, [op |-> "webhook_slot_minus", status |-> 200,
                new_occupied_slots |-> Decrement(occupied_slots_count)])
  /\ Release
  /\ UNCHANGED <<active_tickets, next_ticket_number, resp>>

\* webhook_slot_plus, lines 264-266
PlusUpdate(t) ==
  /\ pc[t] = "plus_update"
  /\ occupied_slots_count' = Increment(occupied_slots_count)
  /\ Return(t, [op |-> "webhook_slot_plus", status |-> 200,
                new_occupied_slots |-> Increment(occupied_slots_count)])
  /\ Release
  /\ UNCHANGED <<active_tickets, next_ticket_number, resp>>

\* The response is sent; the thread takes the next request.
Finish(t) ==
  /\ pc[t] = "done"
  /\ Goto(t, "idle")
  /\ UNCHANGED <<ledger, resp, lock, local, result>>

InitThreads(n) ==
  /\ resp = NoResp
  /\ lock = Free
  /\ pc = [t \in 1..n |-> "idle"]
  /\ local = [t \in 1..n |-> NoLocal]
  /\ users = InitialUsers

ValidEntryBody == {<<"plate_number", <<" ", "b", " ">>>>}
ConcEntryBodies == {{}, ValidEntryBody}
ConcExitBodies ==
  {{}} \cup {{<<"ticket_id", FormatTicketId(n)>>} : n \in 1..ConcTickets}
       \cup {{<<"ticket_id", <<"T", "9", "9", "9", "9">>>>}}

InitConc == InitLedger /\ InitThreads(NumThreads) /\ result = <<>>

ConcBeginEntry == \E t \in Threads, data \in ConcEntryBodies : BeginEntry(t, data) /\ UNCHANGED users
ConcBeginExit == \E t \in Threads, data \in ConcExitBodies : BeginExit(t, data) /\ UNCHANGED users
ConcBeginSlots == \E t \in Threads : BeginSlots(t) /\ UNCHANGED users
ConcBeginList == \E t \in Threads : BeginList(t) /\ UNCHANGED users
ConcBeginMinus == \E t \in Threads : BeginMinus(t) /\ UNCHANGED users
ConcBeginPlus == \E t \in Threads : BeginPlus(t) /\ UNCHANGED users
ConcAcquire == \E t \in Threads : Acquire(t) /\ UNCHANGED users
ConcEntryCheck == \E t \in Threads : EntryCheck(t) /\ UNCHANGED users
ConcEntryScan == \E t \in Threads : EntryScan(t) /\ UNCHANGED users
ConcEntryId == \E t \in Threads, now \in Clock : EntryId(t, now, ConcTickets) /\ UNCHANGED users
ConcEntryStore == \E t \in Threads : EntryStore(t) /\ UNCHANGED users
ConcEntryCount == \E t \in Threads : EntryCount(t) /\ UNCHANGED users
ConcExitGet == \E t \in Threads : ExitGet(t) /\ UNCHANGED users
ConcExitDelete == \E t \in Threads, now \in Clock : ExitDelete(t, now) /\ UNCHANGED users
ConcExitCount == \E t \in Threads : ExitCount(t) /\ UNCHANGED users
ConcSlotsRead == \E t \in Threads : SlotsRead(t) /\ UNCHANGED users
ConcListCopy == \E t \in Threads, now \in Clock : ListCopy(t, now) /\ UNCHANGED users
ConcListBuild == \E t \in Threads : ListBuild(t) /\ UNCHANGED users
ConcMinusUpdate == \E t \in Threads : MinusUpdate(t) /\ UNCHANGED users
ConcPlusUpdate == \E t \in Threads : PlusUpdate(t) /\ UNCHANGED users
ConcFinish == \E t \in Threads : Finish(t) /\ UNCHANGED users

NextConc ==
  \/ ConcBeginEntry \/ ConcBeginExit \/ ConcBeginSlots \/ ConcBeginList
  \/ ConcBeginMinus \/ ConcBeginPlus
  \/ ConcAcquire
  \/ ConcEntryCheck \/ ConcEntryScan \/ ConcEntryId \/ ConcEntryStore \/ ConcEntryCount
  \/ ConcExitGet \/ ConcExitDelete \/ ConcExitCount
  \/ ConcSlotsRead \/ ConcListCopy \/ ConcListBuild
  \/ ConcMinusUpdate \/ ConcPlusUpdate
  \/ ConcFinish

SpecConc == InitConc /\ [][NextConc]_vars

\* SpecRush: TOTAL_SLOTS + ExtraRequests check-in requests, one per thread, sent
\* at once to a server whose ledger is empty; nothing else is called.
RushRequests == TOTAL_SLOTS + ExtraRequests

InitRush ==
  /\ active_tickets = ModuleState.tickets
  /\ occupied_slots_count = ModuleState.count
  /\ next_ticket_number = ModuleState.next
  /\ InitThreads(RushRequests)
  /\ result = [t \in 1..RushRequests |-> NoResp]

RushBeginEntry == \E t \in Threads : BeginEntry(t, ValidEntryBody) /\ UNCHANGED users
RushAcquire == \E t \in Threads : Acquire(t) /\ UNCHANGED users
RushEntryCheck == \E t \in Threads : EntryCheck(t) /\ UNCHANGED users
RushEntryScan == \E t \in Threads : EntryScan(t) /\ UNCHANGED users
RushEntryId == \E t \in Threads, now \in Clock : EntryId(t, now, RushRequests) /\ UNCHANGED users
RushEntryStore == \E t \in Threads : EntryStore(t) /\ UNCHANGED users
RushEntryCount == \E t \in Threads : EntryCount(t) /\ UNCHANGED users

NextRush ==
  \/ RushBeginEntry \/ RushAcquire \/ RushEntryCheck \/ RushEntryScan
  \/ RushEntryId \/ RushEntryStore \/ RushEntryCount

SpecRush == InitRush /\ [][NextRush]_vars

\* ------------------------------------------------------------ one request each
\* SpecOnce: NumThreads requests of any kind arrive, one per thread, at a
\* server whose ledger is empty, seeded, full, or full with the counter one
\* low; the scheduler lets every thread that can take a step take one.
RECURSIVE CheckInTimes(_, _)
CheckInTimes(st, n) ==
  IF n = 0 THEN st
  ELSE LET out == EntryOutcome(st.tickets, st.count, st.next, ValidEntryBody,
                               CHOOSE now \in Clock : TRUE)
       IN CheckInTimes([tickets |-> out.tickets, count |-> out.count,
                        next |-> out.next], n - 1)

\* The seeded ledger after check-ins have taken the remaining slots.
FilledLot ==
  LET seeded == populate_initial_data(ModuleState)
  IN CheckInTimes(seeded, TOTAL_SLOTS - Len(seeded.tickets))

\* The filled ledger after one decrement webhook.
DesyncedLot == [FilledLot EXCEPT !.count = Decrement(FilledLot.count)]

OnceStates == StartStates \cup {FilledLot, DesyncedLot}

\* No thread of SpecOnce ever finds the sequence number capped.
OnceCap == Len(initial_entries) + TOTAL_SLOTS + NumThreads

OnceExitBodies ==
  {{}, {<<"ticket_id", FormatTicketId(1)>>}, {<<"ticket_id", <<"T", "9", "9", "9", "9">>>>}}

InitOnce ==
  /\ \E st \in OnceStates :
       /\ active_tickets = st.tickets
       /\ occupied_slots_count = st.count
       /\ next_ticket_number = st.next
  /\ InitThreads(NumThreads)
  /\ result = [t \in 1..NumThreads |-> NoResp]

\* A request arrives for thread t.
Arrive(t) ==
  \/ \E data \in ConcEntryBodies : BeginEntry(t, data)
  \/ \E data \in OnceExitBodies : BeginExit(t, data)
  \/ BeginSlots(t)
  \/ BeginList(t)
  \/ BeginMinus(t)
  \/ BeginPlus(t)

\* Thread t takes the lock or runs the next statement of its handler.
Step(t) ==
  \/ Acquire(t)
  \/ EntryCheck(t)
  \/ EntryScan(t)
  \/ \E now \in Clock : EntryId(t, now, OnceCap)
  \/ EntryStore(t)
  \/ EntryCount(t)
  \/ ExitGet(t)
  \/ \E now \in Clock : ExitDelete(t, now)
  \/ ExitCount(t)
  \/ SlotsRead(t)
  \/ \E now \in Clock : ListCopy(t, now)
  \/ ListBuild(t)
  \/ MinusUpdate(t)
  \/ PlusUpdate(t)

OnceArrive == \E t \in Threads : Arrive(t) /\ UNCHANGED users
OnceStep == \E t \in Threads : Step(t) /\ UNCHANGED users

NextOnce == OnceArrive \/ OnceStep

SpecOnce ==
  /\ InitOnce
  /\ [][NextOnce]_vars
  /\ \A t \in 1..NumThreads : WF_vars(Step(t) /\ UNCHANGED users)

\* ------------------------------------------------------------ the filled lot
\* SpecFull starts where the seeded service stands once check-ins have taken
\* every slot, and lets the sequence number run past TOTAL_SLOTS.
FullCap == TOTAL_SLOTS + ExtraRequests

InitFull ==
  /\ active_tickets = FilledLot.tickets
  /\ occupied_slots_count = FilledLot.count
  /\ next_ticket_number = FilledLot.next
  /\ resp = NoResp
  /\ lock = Free
  /\ pc = <<>>
  /\ local = <<>>
  /\ result = <<>>
  /\ users = InitialUsers

CheckInFull ==
  \E data \in EntryBodies, now \in Clock : create_entry_upto(data, now, FullCap)

NextFull ==
  \/ get_available_slots /\ UNCHANGED users
  \/ CheckInFull /\ UNCHANGED users
  \/ CheckOut /\ UNCHANGED users
  \/ Listing /\ UNCHANGED users
  \/ webhook_slot_minus /\ UNCHANGED users
  \/ webhook_slot_plus /\ UNCHANGED users

SpecFull == InitFull /\ [][NextFull]_vars

\* ------------------------------------------------------------ the JWT service
\* Seconds on the service's clock when a request is served.
JwtClock == {1000, 2000}

\* datetime.timedelta(minutes=15), in seconds
TOKEN_LIFETIME == 15 * 60

\* A token is an opaque string; jwt.encode and jwt.decode are known by what
\* they tell of it: whether it carries the HS256 signature of JWT_SECRET, its
\* sub claim (NoSub when it has none) and its exp claim.  A string that is no
\* row of the table does not decode at all.
NoSub == "(no sub)"
TokenTable ==
  {[text |-> "ghilman.1900", signed |-> TRUE, sub |-> "ghilman@gmail.com", exp |-> 1900],
   [text |-> "ghilman.2900", signed |-> TRUE, sub |-> "ghilman@gmail.com", exp |-> 2900],
   [text |-> "ghilman.2900.forged", signed |-> FALSE, sub |-> "ghilman@gmail.com", exp |-> 2900],
   [text |-> "nobody.2900", signed |-> TRUE, sub |-> "nobody@gmail.com", exp |-> 2900],
   [text |-> "nosub.2900", signed |-> TRUE, sub |-> NoSub, exp |-> 2900],
   [text |-> "nosub.1900", signed |-> TRUE, sub |-> NoSub, exp |-> 1900]}

\* jwt.encode(payload, JWT_SECRET, algorithm="HS256")
encode(sub, exp) ==
  (CHOOSE row \in TokenTable : row.signed /\ row.sub = sub /\ row.exp = exp).text

NeverExpired(exp, now) == FALSE

\* jwt.decode raises ExpiredSignatureError once exp has passed
Expired(exp, now) == exp <= now

\* jwt.decode(token, JWT_SECRET, algorithms=["HS256"]): the payload, or which
\* error it raises; the signature is verified before the claims are.
decode(token, now) ==
  IF \A row \in TokenTable : row.text = token => ~row.signed
  THEN [error |-> "InvalidTokenError"]
  ELSE LET row == CHOOSE r \in TokenTable : r.text = token
       IN IF Expired(row.exp, now)
          THEN [error |-> "ExpiredSignatureError"]
          ELSE [error |-> "", sub |-> row.sub, exp |-> row.exp]

\* Request headers are a set of <<name, value>> pairs; the value of
\* Authorization is kept as auth_header.split(" ") finds it, so that
\* startswith('Bearer ') is: the first piece is "Bearer" and a second follows.
TokenTexts == {row.text : row \in TokenTable} \cup {"", "garbage"}
Headers ==
  {{}, {<<"Authorization", <<"Bearer">>>>},
   {<<"Authorization", <<"bearer", "ghilman.2900">>>>}}
    \cup {{<<"Authorization", <<"Bearer", token>>>>} : token \in TokenTexts}

\* token_required: the login key of current_user, or the response that turns
\* the request away.  A decoded payload without sub raises KeyError, which no
\* except clause catches: the server answers 500.
token_required(headers, now) ==
  LET pieces == IF Has(headers, "Authorization")
                THEN Get(headers, "Authorization") ELSE <<>>
      token == IF Len(pieces) >= 2 /\ pieces[1] = "Bearer" THEN pieces[2] ELSE ""
  IN IF token = ""
     THEN [status |-> 401, error |-> "token tidak valid/expired/akses tidak sah."]
     ELSE LET data == decode(token, now)
          IN IF data.error = "ExpiredSignatureError"
             THEN [status |-> 401, error |-> "Token kadaluarsa"]
             ELSE IF data.error = "InvalidTokenError"
             THEN [status |-> 401, error |-> "token salah"]
             ELSE IF data.sub = NoSub
             THEN [status |-> 500, error |-> "KeyError: 'sub'"]
             ELSE IF data.sub \notin DOMAIN users
             THEN [status |-> 404, error |-> "user tidak ditemukan"]
             ELSE [status |-> 0, current_user |-> data.sub]

NameInputs == {"budi", "siti", ""}
EmailInputs == {"budi@gmail.com", "nobody@gmail.com"}
ProfileBodies ==
  {{}, {<<"password", "x">>}}
    \cup {{<<"name", n>>} : n \in NameInputs}
    \cup {{<<"email", e>>} : e \in EmailInputs}
    \cup {{<<"name", n>>, <<"email", "budi@gmail.com">>, <<"password", "x">>} :
            n \in NameInputs}

\* PUT /profile
update_profile(headers, data, now) ==
  LET auth == token_required(headers, now)
  IN /\ UNCHANGED <<ledger, threads>>
     /\ IF auth.status # 0
        THEN /\ resp' = [op |-> "update_profile", status |-> auth.status,
                         error |-> auth.error]
             /\ UNCHANGED users
        ELSE IF data = {} \/ (~Has(data, "name") /\ ~Has(data, "email"))
        THEN /\ resp' = [op |-> "update_profile", status |-> 400,
                         error |-> "Request body must contain 'name' or 'email'"]
             /\ UNCHANGED users
        ELSE LET current_user == users[auth.current_user]
                 named == IF Has(data, "name")
                          THEN [current_user EXCEPT !.profile.name = Get(data, "name")]
                          ELSE current_user
                 mailed == IF Has(data, "email")
                           THEN [named EXCEPT !.profile.email = Get(data, "email")]
                           ELSE named
             IN /\ users' = [users EXCEPT ![auth.current_user] = mailed]
                /\ resp' = [op |-> "update_profile", status |-> 200,
                            message |-> "profil berhasil diperbarui",
                            profile |-> mailed.profile]

LoginBodies ==
  {{}, {<<"email", "ghilman@gmail.com">>}}
    \cup {{<<"email", e>>, <<"password", w>>} :
            e \in {"ghilman@gmail.com", "budi@gmail.com", ""},
            w \in {"102022300435", "guess"}}

\* POST /auth/login
login(auth, now) ==
  /\ UNCHANGED <<ledger, threads, users>>
  /\ IF \/ auth = {}
        \/ ~Has(auth, "email") \/ Get(auth, "email") = ""
        \/ ~Has(auth, "password") \/ Get(auth, "password") = ""
     THEN resp' = [op |-> "login", status |-> 400,
                   error |-> "Missing email or password"]
     ELSE IF \/ Get(auth, "email") \notin DOMAIN users
             \/ users[Get(auth, "email")].password # Get(auth, "password")
     THEN resp' = [op |-> "login", status |-> 401, error |-> "Invalid credentials"]
     ELSE resp' = [op |-> "login", status |-> 200,
                   access_token |-> encode(Get(auth, "email"), now + TOKEN_LIFETIME)]

\* items = [...]
items ==
  << [id |-> 1, name |-> "Laptop", price |-> 15000000],
     [id |-> 2, name |-> "Mouse Gaming", price |-> 750000] >>

\* GET /items
get_items ==
  /\ resp' = [op |-> "get_items", status |-> 200, items |-> items]
  /\ UNCHANGED <<ledger, threads, users>>

InitJwt ==
  /\ active_tickets = ModuleState.tickets
  /\ occupied_slots_count = ModuleState.count
  /\ next_ticket_number = ModuleState.next
  /\ resp = NoResp
  /\ lock = Free
  /\ pc = <<>>
  /\ local = <<>>
  /\ result = <<>>
  /\ users = InitialUsers

Login == \E auth \in LoginBodies, now \in JwtClock : login(auth, now)
UpdateProfile ==
  \E headers \in Headers, data \in ProfileBodies, now \in JwtClock :
    update_profile(headers, data, now)

NextJwt == Login \/ get_items \/ UpdateProfile

SpecJwt == InitJwt /\ [][NextJwt]_vars

\* ------------------------------------------------------------ properties
HeldSlots == {active_tickets[i][2].slot_number : i \in 1..Len(active_tickets)}
NormalizedId(data) == upper(strip(Get(data, "ticket_id")))

\* C1: in every reachable state the slot numbers of the active tickets are
\* pairwise distinct and each lies in 1..TOTAL_SLOTS.
C1_SlotsDistinctInRange ==
  \A i, j \in 1..Len(active_tickets) :
    /\ active_tickets[i][2].slot_number \in 1..TOTAL_SLOTS
    /\ i # j => active_tickets[i][2].slot_number # active_tickets[j][2].slot_number

\* A check-in has just filled the last slot while webhooks hold the counter low.
C1_Witness ==
  /\ resp.op = "create_entry" /\ resp.status = 201
  /\ Len(active_tickets) = TOTAL_SLOTS
  /\ occupied_slots_count < TOTAL_SLOTS

\* C2: occupied_slots_count stays within 0..TOTAL_SLOTS in every reachable state.
C2_CountInRange == occupied_slots_count \in 0..TOTAL_SLOTS

\* A check-in has just hit the desync branch and reset the counter to the
\* number of active tickets, which is TOTAL_SLOTS.
C2_Witness ==
  /\ resp.op = "create_entry"
  /\ resp.status = 400
  /\ resp.error = "Parking lot is full (state desync detected)"
  /\ occupied_slots_count = TOTAL_SLOTS

\* C3: a check-in (with a valid plate) taken when occupied_slots_count equals
\* TOTAL_SLOTS answers 400 "Parking lot is full", however many tickets are
\* active, and leaves the tickets, the counter and the sequence number unchanged.
C3_FullAlwaysRejects ==
  [][\A data \in EntryBodies, now \in Clock :
       (/\ occupied_slots_count = TOTAL_SLOTS
        /\ ~EntryInvalid(data)
        /\ create_entry(data, now))
       => (/\ resp'.status = 400
           /\ resp'.error = "Parking lot is full"
           /\ UNCHANGED ledger)]_vars

\* A check-in was refused as full while physical slots are free.
C3_Witness ==
  /\ resp.op = "create_entry"
  /\ resp.status = 400
  /\ resp.error = "Parking lot is full"
  /\ occupied_slots_count = TOTAL_SLOTS
  /\ Len(active_tickets) < TOTAL_SLOTS

\* C4: a check-out whose (normalised) ticket id is not a key of active_tickets
\* answers 404 "Ticket not found" and leaves the tickets, the counter and the
\* sequence number unchanged.
C4_UnknownTicketRejected ==
  [][\A data \in ExitBodies, now \in Clock :
       (/\ Has(data, "ticket_id")
        /\ NormalizedId(data) \notin Keys(active_tickets)
        /\ create_exit(data, now))
       => (/\ resp'.status = 404
           /\ resp'.error = "Ticket not found"
           /\ UNCHANGED ledger)]_vars

\* A check-out was answered 404 while tickets are active and the counter is
\* positive (so a decrement would have shown).
C4_Witness ==
  /\ resp.op = "create_exit"
  /\ resp.status = 404
  /\ active_tickets # <<>>
  /\ occupied_slots_count > 0

Successes == {t \in Threads : result[t].op = "create_entry" /\ result[t].status = 201}
Answered == {t \in Threads : result[t] # NoResp}
LotFullErrors == {"Parking lot is full", "Parking lot is full (state desync detected)"}

\* C5: of more than TOTAL_SLOTS concurrent check-ins sent to an empty ledger,
\* under every interleaving exactly TOTAL_SLOTS succeed, with pairwise distinct
\* slots and ticket ids, and every other one is refused as full (and only once
\* TOTAL_SLOTS have succeeded).
C5_RushFillsExactlyTheLot ==
  /\ \A t1, t2 \in Successes :
       t1 # t2 => /\ result[t1].slot_number # result[t2].slot_number
                  /\ result[t1].ticket_id # result[t2].ticket_id
  /\ Cardinality(Successes) <= TOTAL_SLOTS
  /\ \A t \in Answered \ Successes :
       /\ result[t].op = "create_entry"
       /\ result[t].status = 400
       /\ result[t].error \in LotFullErrors
       /\ Cardinality(Successes) = TOTAL_SLOTS
  /\ (\A t \in Threads : pc[t] = "done") =>
       /\ Cardinality(Successes) = TOTAL_SLOTS
       /\ Answered = Threads

\* Every request has been answered and at least one was refused.
C5_Witness ==
  /\ \A t \in Threads : pc[t] = "done"
  /\ Cardinality(Successes) = TOTAL_SLOTS
  /\ Answered \ Successes # {}

InCS(t) == pc[t] \in CSLabels

\* C6: every operation reads and writes the ledger inside one critical section
\* of data_lock: a thread is inside only while it holds the lock, so at most
\* one is inside; the ledger changes only by a step of the holder; a thread
\* enters only when no thread is inside (it never sees a ticket stored without
\* its counter update), and it leaves only by returning, which frees the lock.
C6_OneCriticalSection ==
  /\ [](\A t \in Threads : InCS(t) => lock = t)
  /\ [](lock # Free => InCS(lock))
  /\ [][/\ ledger' # ledger =>
             /\ lock # Free
             /\ InCS(lock)
             /\ pc'[lock] # pc[lock]
             /\ \A u \in Threads \ {lock} : pc'[u] = pc[u]
        /\ \A t \in Threads :
             (~InCS(t) /\ InCS(t)') =>
               /\ pc[t] \in LockLabels
               /\ lock = Free
               /\ lock' = t
               /\ \A u \in Threads \ {t} : ~InCS(u)
        /\ \A t \in Threads :
             (InCS(t) /\ ~InCS(t)') => (pc'[t] = "done" /\ lock' = Free)]_vars

\* A check-in has stored its ticket but not yet counted it, while another
\* request waits for the lock.
C6_Witness ==
  \E t, u \in Threads :
    /\ pc[t] = "entry_count"
    /\ Len(active_tickets) # occupied_slots_count
    /\ pc[u] = "list_lock"

\* The least h >= 1 with h hours covering s seconds: max(1, ceil(s / 3600)).
BilledHours(s) ==
  CHOOSE h \in 1..(IF s > 0 THEN s ELSE 1) :
    /\ h * SECONDS_PER_HOUR >= s
    /\ h = 1 \/ (h - 1) * SECONDS_PER_HOUR < s

\* C7: for an elapsed time of s whole seconds (zero and negative included)
\* calculate_cost returns duration_hours = max(1, ceil(s / 3600)) and
\* cost = duration_hours * HOURLY_RATE; 1 s and 3600 s give 1 hour, 3601 s gives 2.
C7_CeilingMinimumOneHour ==
  (resp.op = "calculate_cost" /\ resp.status = 200) =>
    LET s == resp.exit_time - resp.entry_time
    IN /\ resp.duration_hours = BilledHours(s)
       /\ resp.cost = resp.duration_hours * HOURLY_RATE
       /\ s <= 0 => resp.duration_hours = 1
       /\ s = 1 => resp.duration_hours = 1
       /\ s = SECONDS_PER_HOUR => resp.duration_hours = 1
       /\ s = SECONDS_PER_HOUR + 1 => resp.duration_hours = 2

\* calculate_cost has answered for a stay of 3601 seconds.
C7_Witness ==
  /\ resp.op = "calculate_cost"
  /\ resp.status = 200
  /\ resp.exit_time - resp.entry_time = SECONDS_PER_HOUR + 1
  /\ resp.duration_hours = 2

\* C8: when the ticket a successful check-in has just created is checked out by
\* the very next operation, the ticket leaves the active set and any check-in
\* taken next succeeds and is given the same slot.
C8_SlotReusedAfterCheckOut ==
  [][\A data \in ExitBodies, now \in Clock :
       (/\ resp.op = "create_entry" /\ resp.status = 201
        /\ Has(data, "ticket_id")
        /\ NormalizedId(data) = resp.ticket_id
        /\ create_exit(data, now))
       => (/\ resp'.status = 200
           /\ resp.ticket_id \notin Keys(active_tickets')
           /\ \A again \in EntryBodies, later \in Clock :
                ~EntryInvalid(again) =>
                  LET out == EntryOutcome(active_tickets', occupied_slots_count',
                                          next_ticket_number', again, later)
                  IN /\ out.resp.status = 201
                     /\ out.resp.slot_number = resp.slot_number)]_vars

\* The most recently created ticket has been checked out, other tickets are
\* still active and the slot it frees is not slot 1.
C8_Witness ==
  /\ resp.op = "create_exit" /\ resp.status = 200
  /\ resp.ticket_id = FormatTicketId(next_ticket_number - 1)
  /\ active_tickets # <<>>
  /\ find_next_available_slot(active_tickets) > 1

\* C9: find_next_available_slot returns the smallest slot of 1..TOTAL_SLOTS that
\* no active ticket holds, and None exactly when all of them are held.
C9_LowestFreeSlot ==
  LET r == find_next_available_slot(active_tickets)
  IN IF \A i \in 1..TOTAL_SLOTS : i \in HeldSlots
     THEN r = NoSlot
     ELSE /\ r \in 1..TOTAL_SLOTS
          /\ r \notin HeldSlots
          /\ \A j \in 1..(r - 1) : j \in HeldSlots

\* Slot 1 is free while higher slots are held.
C9_Witness ==
  /\ 1 \notin HeldSlots
  /\ {2, TOTAL_SLOTS} \subseteq HeldSlots
  /\ find_next_available_slot(active_tickets) = 1

\* C10: the sequence number starts at 1 (one number is used per seeded ticket),
\* never decreases, grows by exactly one with every ticket created, and the id
\* of a new ticket differs from every id issued before it.
C10_SequenceNeverReused ==
  /\ next_ticket_number = 1 + Len(active_tickets)
  /\ [][LET created == Keys(active_tickets') \ Keys(active_tickets)
        IN /\ next_ticket_number' >= next_ticket_number
           /\ next_ticket_number' # next_ticket_number =>
                /\ next_ticket_number' = next_ticket_number + 1
                /\ created # {}
           /\ \A key \in created :
                /\ key = FormatTicketId(next_ticket_number)
                /\ next_ticket_number' = next_ticket_number + 1
                /\ \A k \in 1..(next_ticket_number - 1) : FormatTicketId(k) # key]_vars
  /\ [](Keys(active_tickets) \subseteq
          {FormatTicketId(k) : k \in 1..(next_ticket_number - 1)})

\* A ticket has just been created after an earlier ticket was checked out.
C10_Witness ==
  /\ resp.op = "create_entry" /\ resp.status = 201
  /\ FormatTicketId(1) \notin Keys(active_tickets)
  /\ Len(active_tickets) < next_ticket_number - 1

\* C11: a check-in (valid plate) that finds the counter below TOTAL_SLOTS while
\* every slot is held by an active ticket sets the counter to the number of
\* active tickets and is refused with the desync variant of the lot-full error;
\* no ticket is created and the sequence number is unchanged.
C11_DesyncResyncsAndRejects ==
  [][\A data \in EntryBodies, now \in Clock :
       (/\ occupied_slots_count < TOTAL_SLOTS
        /\ HeldSlots = 1..TOTAL_SLOTS
        /\ ~EntryInvalid(data)
        /\ create_entry(data, now))
       => (/\ resp'.status = 400
           /\ resp'.error = "Parking lot is full (state desync detected)"
           /\ occupied_slots_count' = Len(active_tickets)
           /\ active_tickets' = active_tickets
           /\ next_ticket_number' = next_ticket_number)]_vars

\* The desync branch has run from a counter that was too low: every slot is
\* held and the counter now equals the number of tickets.
C11_Witness ==
  /\ resp.op = "create_entry"
  /\ resp.status = 400
  /\ resp.error = "Parking lot is full (state desync detected)"
  /\ HeldSlots = 1..TOTAL_SLOTS
  /\ occupied_slots_count = Len(active_tickets)

\* The smallest slot of 1..TOTAL_SLOTS outside held (held is not all of them).
LowestFree(held) ==
  CHOOSE i \in (1..TOTAL_SLOTS) \ held : \A j \in (1..TOTAL_SLOTS) \ held : i <= j

\* C12: a successful check-in adds exactly one ticket, whose id is the format of
\* the sequence number and whose slot is the lowest free one, adds one to the
\* counter and one to the sequence number, and leaves the other tickets as
\* they were.
C12_CheckInAddsOneTicket ==
  [][\A data \in EntryBodies, now \in Clock :
       (create_entry(data, now) /\ resp'.status = 201)
       => (/\ Len(active_tickets') = Len(active_tickets) + 1
           /\ \A i \in 1..Len(active_tickets) : active_tickets'[i] = active_tickets[i]
           /\ LET new == active_tickets'[Len(active_tickets')]
              IN /\ new[1] = FormatTicketId(next_ticket_number)
                 /\ new[1] \notin Keys(active_tickets)
                 /\ new[2].ticket_id = new[1]
                 /\ new[2].slot_number = LowestFree(HeldSlots)
                 /\ new[2].entry_time = now
                 /\ resp'.ticket_id = new[1]
                 /\ resp'.slot_number = new[2].slot_number
           /\ occupied_slots_count' = occupied_slots_count + 1
           /\ next_ticket_number' = next_ticket_number + 1)]_vars

\* A check-in has succeeded into a slot below a held one, with older tickets
\* still active.
C12_Witness ==
  /\ resp.op = "create_entry" /\ resp.status = 201
  /\ Len(active_tickets) >= 3
  /\ \E i \in 1..Len(active_tickets) :
       active_tickets[i][2].slot_number > resp.slot_number

\* C13: a successful check-out removes exactly the named ticket, takes one from
\* the counter unless it is 0 (then it stays 0), leaves the other tickets and
\* the sequence number unchanged, and bills the hours between the removed
\* ticket's stored entry_time and the time of the check-out.
C13_CheckOutRemovesOneTicket ==
  [][\A data \in ExitBodies, now \in Clock :
       (create_exit(data, now) /\ resp'.status = 200)
       => LET id == NormalizedId(data)
              at == CHOOSE i \in 1..Len(active_tickets) : active_tickets[i][1] = id
              gone == active_tickets[at][2]
          IN /\ id \in Keys(active_tickets)
             /\ id \notin Keys(active_tickets')
             /\ Len(active_tickets') = Len(active_tickets) - 1
             /\ \A i \in 1..Len(active_tickets) :
                  i # at => \E j \in 1..Len(active_tickets') :
                              active_tickets'[j] = active_tickets[i]
             /\ occupied_slots_count' =
                  (IF occupied_slots_count = 0 THEN 0 ELSE occupied_slots_count - 1)
             /\ next_ticket_number' = next_ticket_number
             /\ resp'.ticket_id = id
             /\ resp'.entry_time = gone.entry_time
             /\ resp'.exit_time = now
             /\ resp'.duration_hours = BilledHours(now - gone.entry_time)
             /\ resp'.cost = BilledHours(now - gone.entry_time) * HOURLY_RATE]_vars

\* A ticket billed for more than one hour has been checked out while the
\* counter was already 0 and other tickets stay active.
C13_Witness ==
  /\ resp.op = "create_exit" /\ resp.status = 200
  /\ resp.duration_hours > 1
  /\ occupied_slots_count = 0
  /\ active_tickets # <<>>

\* C14: an id that was issued and is no longer active (its ticket was checked
\* out) never becomes active again, and a check-out of the id that the last
\* operation checked out answers 404 and changes nothing.
C14_CheckedOutForGood ==
  [][/\ \A k \in 1..(next_ticket_number - 1) :
          FormatTicketId(k) \notin Keys(active_tickets)
            => FormatTicketId(k) \notin Keys(active_tickets')
     /\ \A data \in ExitBodies, now \in Clock :
          (/\ resp.op = "create_exit" /\ resp.status = 200
           /\ Has(data, "ticket_id")
           /\ NormalizedId(data) = resp.ticket_id
           /\ create_exit(data, now))
          => (/\ resp'.status = 404
              /\ UNCHANGED ledger)]_vars

\* The first ticket was checked out and a later check-in has taken its slot.
C14_Witness ==
  /\ next_ticket_number > 1
  /\ FormatTicketId(1) \notin Keys(active_tickets)
  /\ resp.op = "create_entry" /\ resp.status = 201
  /\ resp.slot_number = 1

\* C15: get_all_tickets returns one entry for every active ticket and no other,
\* in strictly ascending slot_number order, and leaves the tickets, the counter
\* and the sequence number unchanged.
C15_ListingSortedAndPure ==
  [][\A now \in Clock :
       get_all_tickets(now)
       => LET list == resp'.tickets
          IN /\ Len(list) = Len(active_tickets)
             /\ \A i \in 1..Len(active_tickets) :
                  \E j \in 1..Len(list) :
                    /\ list[j].ticket_id = active_tickets[i][1]
                    /\ list[j].slot_number = active_tickets[i][2].slot_number
                    /\ list[j].plate_number = active_tickets[i][2].plate_number
                    /\ list[j].entry_time = active_tickets[i][2].entry_time
             /\ \A i, j \in 1..Len(list) :
                  i < j => list[i].slot_number < list[j].slot_number
             /\ UNCHANGED ledger]_vars

\* A listing was returned while the dict holds a lower slot after a higher one.
C15_Witness ==
  /\ resp.op = "get_all_tickets"
  /\ Len(resp.tickets) >= 2
  /\ \E i, j \in 1..Len(active_tickets) :
       i < j /\ active_tickets[i][2].slot_number > active_tickets[j][2].slot_number

\* C16: a webhook call changes the counter by at most one and changes neither
\* the tickets nor the sequence number.
C16_WebhookTouchesCounterOnly ==
  [][(webhook_slot_minus \/ webhook_slot_plus)
       => (/\ occupied_slots_count' - occupied_slots_count \in {-1, 0, 1}
           /\ active_tickets' = active_tickets
           /\ next_ticket_number' = next_ticket_number)]_vars

\* A decrement webhook has taken the counter below the number of active tickets.
C16_Witness ==
  /\ resp.op = "webhook_slot_minus"
  /\ resp.new_occupied_slots = occupied_slots_count
  /\ occupied_slots_count < Len(active_tickets)
  /\ occupied_slots_count > 0

\* C17: every operation that takes data_lock frees it when it returns, on the
\* error returns too, and, when every runnable thread keeps being scheduled,
\* every run settles with the lock free and no thread left inside a request:
\* each request that arrived has been answered.
C17_EveryRequestCompletes ==
  /\ [][\A t \in 1..NumThreads :
          (InCS(t) /\ pc'[t] = "done") => (lock = t /\ lock' = Free)]_vars
  /\ <>[](/\ lock = Free
          /\ \A t \in 1..NumThreads : pc[t] \in {"idle", "done"})

\* Both requests are answered and the lock is free after one check-in took the
\* desync return and one check-out the ticket-not-found return.
C17_Witness ==
  /\ lock = Free
  /\ \A t \in Threads : pc[t] = "done"
  /\ \E t, u \in Threads :
       /\ result[t].op = "create_entry"
       /\ result[t].status = 400
       /\ result[t].error = "Parking lot is full (state desync detected)"
       /\ result[u].op = "create_exit"
       /\ result[u].status = 404

\* C18: the slot status reports the counter as occupied_slots and
\* max(0, TOTAL_SLOTS - counter) as available_slots; a successful check-in
\* reports TOTAL_SLOTS minus the counter after its increment; neither figure is
\* ever negative.
C18_AvailableNeverNegative ==
  /\ resp.op = "get_available_slots" =>
       /\ resp.total_slots = TOTAL_SLOTS
       /\ resp.occupied_slots = occupied_slots_count
       /\ resp.available_slots =
            (IF TOTAL_SLOTS - occupied_slots_count > 0
             THEN TOTAL_SLOTS - occupied_slots_count ELSE 0)
       /\ resp.available_slots >= 0
  /\ (resp.op = "create_entry" /\ resp.status = 201) =>
       /\ resp.available_slots = TOTAL_SLOTS - occupied_slots_count
       /\ resp.available_slots >= 0

\* The slot status was read while the counter differs from the number of
\* active tickets.
C18_Witness ==
  /\ resp.op = "get_available_slots"
  /\ occupied_slots_count # Len(active_tickets)
  /\ resp.occupied_slots = occupied_slots_count

\* The body has no plate_number or one that is nothing but blanks.
PlateMissingOrBlank(data) ==
  \/ ~Has(data, "plate_number")
  \/ \A i \in 1..Len(Get(data, "plate_number")) : Get(data, "plate_number")[i] = " "

\* C19: a check-in whose plate_number is missing, or empty once trimmed, is
\* answered 400 "plate_number is required" and leaves the tickets, the counter
\* and the sequence number unchanged.
C19_BlankPlateRejected ==
  [][\A data \in EntryBodies, now \in Clock :
       (PlateMissingOrBlank(data) /\ create_entry(data, now))
       => (/\ resp'.status = 400
           /\ resp'.error = "plate_number is required"
           /\ UNCHANGED ledger)]_vars

\* A check-in was refused for its plate although the lot has room.
C19_Witness ==
  /\ resp.op = "create_entry"
  /\ resp.status = 400
  /\ resp.error = "plate_number is required"
  /\ occupied_slots_count < TOTAL_SLOTS
  /\ Len(active_tickets) < TOTAL_SLOTS

\* C20: a check-out whose ticket_id is missing or empty is answered 400, not
\* 404, and leaves the ledger unchanged.
C20_EmptyTicketIdIsValidationError ==
  [][\A data \in ExitBodies, now \in Clock :
       ((~Has(data, "ticket_id") \/ Get(data, "ticket_id") = <<>>)
        /\ create_exit(data, now))
       => (/\ resp'.status = 400
           /\ UNCHANGED ledger)]_vars

\* C21: the counter can leave the number of active tickets in both directions.
\* From a ledger where the two agree, the increment webhook (below
\* TOTAL_SLOTS) puts the counter above the number of tickets and the decrement
\* webhook (above 0) puts it below; and a valid check-in made while the counter
\* is at TOTAL_SLOTS is refused as full, ledger unchanged, although the scan
\* would find a free slot.
C21_CounterDivergesFromTickets ==
  [][/\ (/\ webhook_slot_plus
          /\ occupied_slots_count = Len(active_tickets)
          /\ occupied_slots_count < TOTAL_SLOTS)
         => occupied_slots_count' > Len(active_tickets')
     /\ (/\ webhook_slot_minus
          /\ occupied_slots_count = Len(active_tickets)
          /\ occupied_slots_count > 0)
         => occupied_slots_count' < Len(active_tickets')
     /\ \A data \in EntryBodies, now \in Clock :
          (/\ create_entry(data, now)
           /\ ~EntryInvalid(data)
           /\ occupied_slots_count >= TOTAL_SLOTS
           /\ find_next_available_slot(active_tickets) # NoSlot)
          => (/\ resp'.status = 400
              /\ resp'.error = "Parking lot is full"
              /\ UNCHANGED ledger)]_vars

\* A check-in has just been refused as full while a slot is free and the
\* counter is above the number of active tickets.
C21_Witness ==
  /\ resp.op = "create_entry"
  /\ resp.status = 400
  /\ resp.error = "Parking lot is full"
  /\ find_next_available_slot(active_tickets) # NoSlot
  /\ occupied_slots_count > Len(active_tickets)

\* C22: when no webhook is ever called, from the empty ledger and from the
\* seeded one, the counter equals the number of active tickets in every state
\* and no check-in is answered by the desync branch.
C22_CounterMirrorsTicketsWithoutWebhooks ==
  /\ occupied_slots_count = Len(active_tickets)
  /\ ~(/\ resp.op = "create_entry"
        /\ resp.status = 400
        /\ resp.error = "Parking lot is full (state desync detected)")

\* A check-in was refused by the counter test on a lot whose five slots are
\* all held, after earlier check-ins filled it.
C22_Witness ==
  /\ resp.op = "create_entry"
  /\ resp.status = 400
  /\ resp.error = "Parking lot is full"
  /\ Len(active_tickets) = TOTAL_SLOTS
  /\ find_next_available_slot(active_tickets) = NoSlot

\* C23: the number of active tickets never exceeds TOTAL_SLOTS; in particular
\* a check-in made on a full lot whose counter the decrement webhook has taken
\* below the number of tickets, as far as 0, adds no ticket.
C23_TicketsNeverExceedSlots ==
  /\ [](Len(active_tickets) <= TOTAL_SLOTS)
  /\ [][\A data \in EntryBodies, now \in Clock :
          (/\ create_entry_upto(data, now, FullCap)
           /\ Len(active_tickets) = TOTAL_SLOTS
           /\ occupied_slots_count < Len(active_tickets))
          => (/\ active_tickets' = active_tickets
              /\ resp'.status = 400)]_vars

\* Every slot is held and decrement webhooks have taken the counter to 0.
C23_Witness ==
  /\ Len(active_tickets) = TOTAL_SLOTS
  /\ occupied_slots_count = 0
  /\ resp.op = "webhook_slot_minus"

\* What the Authorization header of a request offers as its token: the second
\* piece of a header that begins "Bearer ", "" otherwise.
BearerToken(headers) ==
  IF /\ \E h \in headers : h[1] = "Authorization"
     /\ \E h \in headers : h[1] = "Authorization" /\ Len(h[2]) >= 2 /\ h[2][1] = "Bearer"
  THEN (CHOOSE h \in headers : h[1] = "Authorization")[2][2]
  ELSE ""

\* The token is signed with the secret, has not expired and names a user of
\* the store.
Authorized(headers, now) ==
  \E row \in TokenTable :
    /\ row.text = BearerToken(headers)
    /\ row.signed
    /\ row.exp > now
    /\ row.sub \in DOMAIN users

\* The token is missing, expired or invalid, or its subject is no user.
TurnedAway(headers, now) ==
  \/ BearerToken(headers) = ""
  \/ \A row \in TokenTable : row.text = BearerToken(headers) => ~row.signed
  \/ \E row \in TokenTable :
       /\ row.text = BearerToken(headers)
       /\ row.signed
       /\ \/ row.exp <= now
          \/ row.sub # NoSub /\ row.sub \notin DOMAIN users

\* C24: update_profile changes the users store only for a request whose
\* Bearer token is signed, unexpired and names an existing user; a request
\* whose token is missing, expired or invalid or names no user is answered 401
\* or 404 with the store unchanged; and an update changes nothing but the
\* profile name and email of the token's user: the login keys, every password
\* and every other user stay as they were.
C24_ProfileUpdateNeedsValidToken ==
  [][\A headers \in Headers, data \in ProfileBodies, now \in JwtClock :
       (resp'.op = "update_profile" /\ update_profile(headers, data, now))
       => /\ users' # users => (Authorized(headers, now) /\ resp'.status = 200)
          /\ TurnedAway(headers, now)
               => (resp'.status \in {401, 404} /\ users' = users)
          /\ DOMAIN users' = DOMAIN users
          /\ \A k \in DOMAIN users :
               /\ users'[k].password = users[k].password
               /\ DOMAIN users'[k] = DOMAIN users[k]
               /\ users'[k] # users[k]
                    => \E row \in TokenTable :
                         row.text = BearerToken(headers) /\ row.sub = k]_vars

\* A profile update went through: the user's profile email is no longer the
\* login key, which still opens the store with the same password.
C24_Witness ==
  /\ resp.op = "update_profile"
  /\ resp.status = 200
  /\ users["ghilman@gmail.com"].profile.email # "ghilman@gmail.com"
  /\ users["ghilman@gmail.com"].profile.name # InitialUsers["ghilman@gmail.com"].profile.name
  /\ users["ghilman@gmail.com"].password = InitialUsers["ghilman@gmail.com"].password

====
